---- MODULE Spec2Model ----
(***************************************************************************)
(* Preference-driven inference orchestration of the dashboard main page    *)
(* (Home component): slider / focus handlers, the debounce effect, the     *)
(* runInference coordinator with its AbortController, and the completions  *)
(* of the fetch and json() promises.                                       *)
(*                                                                         *)
(* Numbers that are fractions in the code are kept as integers: request    *)
(* weights are in hundredths (0.6 -> 60), probabilities in hundredths,     *)
(* cluster metrics in ten-thousandths.  Time is in milliseconds.           *)
(***************************************************************************)
EXTENDS Integers, Sequences, FiniteSets, TLC

\* ------------------------------------------------------------------ bounds
MaxCalls == 2
MaxTime == 900
Granularity == 2
RangeMargin == 2
MaxWalletLen == 3

\* ------------------------------------------------------- program constants
DEBOUNCE_MS == 600
DEMO_DELAY_MS == 0
DEFAULT_DEMO_WEIGHT == 65
SNAP_THRESHOLD == 50
SNAP_LOW == 50
SNAP_HIGH == 60
PRICE_FOCUS_WEIGHT == 75
SENTIMENT_FOCUS_WEIGHT == 25

\* One step of the clock: the debounce window is Granularity steps long.
Step == DEBOUNCE_MS \div Granularity

\* null / undefined of the source
\* A value that may be null or undefined is a tagged tuple.
Null == <<"null">>
Undefined == <<"undefined">>
Some(v) == <<"value", v>>
ValueOf(x) == x[2]
Nullish(x) == x \in {Null, Undefined}

\* a ?? b
Coalesce(a, b) == IF Nullish(a) THEN b ELSE a

Min(a, b) == IF a < b THEN a ELSE b
Max(a, b) == IF a > b THEN a ELSE b

\* ------------------------------------------------------------- BiasMapper
snapWeightOff(value) == IF value <= SNAP_THRESHOLD THEN SNAP_LOW ELSE SNAP_HIGH
snapWeight(value) == IF value < SNAP_THRESHOLD THEN SNAP_LOW ELSE SNAP_HIGH

\* Math.min(Math.max(effectiveBias / 100, 0), 1), in hundredths
PriceWeightOfUnclamped(bias) == bias
PriceWeightOf(bias) == Min(Max(bias, 0), 100)
\* 1 - priceWeight, in hundredths
SentimentWeightOf(pw) == 100 - pw

\* ------------------------------------------------------- fixed payloads
DEMO_RECOMMENDATIONS ==
  << [action |-> "restake", probability |-> 58,
      rationale |-> "Price-weighted snapshot favours compounding rewards."],
     [action |-> "stake", probability |-> 29,
      rationale |-> "Neutral stance keeps capital deployed in baseline pools."],
     [action |-> "liquid_stake", probability |-> 13,
      rationale |-> "Liquidity optionality remains a secondary hedge."] >>

DEMO_CLUSTER ==
  [id |-> 0,
   label |-> "Restake skew",
   description |-> "APR momentum trending higher alongside elevated withdrawer counts.",
   drivers |-> << "Daily APR sits near local highs with positive netflows.",
                  "Depositors outpace withdrawers after semantic boost." >>,
   metrics |-> [daily_apr |-> 259, withdraw |-> -32000000, deposit |-> 125000000,
                daily_netflow |-> 93000000, withdrawers |-> 580000,
                depositors |-> 720000]]

DEFAULT_NARRATIVE ==
  "Models are syncing signals -- adjust the slider to see how focus shifts recommendations."
DEMO_NARRATIVE ==
  "Claude notes a restake tilt with liquidity hedges kept light; watch deposits outpacing withdrawals."
DEMO_MESSAGE == "Demo snapshot loaded locally."
FALLBACK_MESSAGE ==
  "Falling back to demo snapshot while the model API is unreachable."
AUTO_MESSAGE == "Updating signals to reflect the slider."
MANUAL_MESSAGE == "Fetching the freshest signal mix."

\* new Date().toISOString() at time t
IsoNow(t) == "iso@" \o ToString(t)

\* ----------------------------------------------------------------- inputs
\* raw slider positions offered to the handlers
Weights == {49, 50}
\* configured NEXT_PUBLIC_DEMO_WEIGHT values
DemoWeights == {30, DEFAULT_DEMO_WEIGHT}
FocusModes == {"price", "sentiment"}

\* wallet text offered to the wallet input, as sequences of characters
Wallets == { <<>>, <<" ", "x", " ">> }

\* String.prototype.trim
RECURSIVE TrimLeft(_)
TrimLeft(s) == IF s # <<>> /\ Head(s) = " " THEN TrimLeft(Tail(s)) ELSE s
RECURSIVE TrimRight(_)
TrimRight(s) ==
  IF s # <<>> /\ s[Len(s)] = " " THEN TrimRight(SubSeq(s, 1, Len(s) - 1)) ELSE s
TrimNone(s) == s
Trim(s) == TrimRight(TrimLeft(s))

\* every wallet text of up to MaxWalletLen characters, blank or not
RECURSIVE TextsOfLen(_)
TextsOfLen(n) ==
  IF n = 0 THEN { <<>> }
  ELSE {Append(s, c) : s \in TextsOfLen(n - 1), c \in {" ", "x"}}
AllWallets == UNION {TextsOfLen(n) : n \in 0..MaxWalletLen}

\* Response bodies the signal service may return to call id: every field is
\* independently undefined, null or a value carrying the call's identity.
LiveRecommendations(id) ==
  << [action |-> "stake", probability |-> 50 + id,
      rationale |-> "live rationale " \o ToString(id)] >>
LiveCluster(id) ==
  [id |-> id, label |-> "live cluster", description |-> "live description",
   drivers |-> << "live driver" >>, metrics |-> [daily_apr |-> 100 + id]]
LiveMessage(id) == "live message " \o ToString(id)
LiveNarrative(id) == "live narrative " \o ToString(id)
LiveGeneratedAt(id) == "generated@" \o ToString(id)

BodyFields == {"recommendations", "cluster", "message", "generated_at", "narrative"}
LiveBody(id) ==
  [recommendations |-> Some(LiveRecommendations(id)),
   cluster |-> Some(LiveCluster(id)),
   message |-> Some(LiveMessage(id)),
   generated_at |-> Some(LiveGeneratedAt(id)),
   narrative |-> Some(LiveNarrative(id))]
\* the live body with the fields of the set missing left out (or set to null)
BodyWithout(id, missing, as) ==
  [f \in BodyFields |-> IF f \in missing THEN as ELSE LiveBody(id)[f]]
\* a complete body, and one with every field left out or null
Bodies(id) ==
  { LiveBody(id),
    [BodyWithout(id, BodyFields, Undefined)
       EXCEPT !["cluster"] = Null, !["generated_at"] = Null] }

\* what response.json() may resolve to for call id
Decoded(id) == {Null} \cup {Some(b) : b \in Bodies(id)}

\* every body: each field independently left out, null or present
AllBodies(id) ==
  [recommendations : {Undefined, Null, LiveBody(id).recommendations},
   cluster : {Undefined, Null, LiveBody(id).cluster},
   message : {Undefined, Null, LiveBody(id).message},
   generated_at : {Undefined, Null, LiveBody(id).generated_at},
   narrative : {Undefined, Null, LiveBody(id).narrative}]
AllDecoded(id) == {Some(b) : b \in AllBodies(id)}

\* raw weights (slider positions, configured DEMO_WEIGHT) and bias arguments
\* of runInference, in and out of the slider's range 0..100
RawWeights == (0 - RangeMargin)..(100 + RangeMargin)
BiasInputs == (0 - RangeMargin)..(100 + RangeMargin)

\* ------------------------------------------------------------------ state
VARIABLES
  demo,                \* USE_DEMO_SIGNALS
  mounted,             \* the component is mounted
  focus, weight, effectiveBias, wallet,
  recStatus, recommendations, clusterInsight, modelMessage, lastRunAt,
  narrativeCopy,
  inferenceController, \* index into calls of the current controller, 0 = null
  walletRef, weightRef,
  calls,               \* every fetch issued so far: its controller's signal
                       \* and how far its awaits have got
  lastRequest,         \* the body of the POST issued last, with the trigger
                       \* and the bias it was computed from
  timers,              \* pending setTimeout callbacks
  debounce,            \* the timer handle held by the debounce effect
  now,                 \* clock
  \* history
  lastChangeAt,        \* time of the last render that re-ran the debounce effect
  autoSinceChange,     \* timer-fired runs since then
  manualSinceChange,   \* a manual run happened since then
  applied,             \* the run whose outcome was stored last, and why
  lastDelivery,        \* the call whose completion arrived last
  maxDelivered,        \* the latest-dispatched call that has completed
  currentFailed        \* the current call completed with a genuine failure

prefVars == <<focus, weight, effectiveBias, wallet, walletRef, weightRef>>
resultVars == <<recStatus, recommendations, clusterInsight, modelMessage,
                lastRunAt, narrativeCopy>>
netVars == <<inferenceController, calls, lastRequest>>
timerVars == <<timers, debounce, lastChangeAt, autoSinceChange, manualSinceChange>>
histVars == <<lastDelivery, maxDelivered, currentFailed>>
vars == <<demo, mounted, prefVars, resultVars, netVars, timerVars, now, applied, histVars>>

NothingApplied == [kind |-> "none", gen |-> 0, body |-> Null, cause |-> "none"]
NoRequest == [trigger |-> "none", bias |-> -1, price_weight |-> -1,
              sentiment_weight |-> -1, wallet |-> Null]
NoDelivery == [gen |-> 0, aborted |-> FALSE, failed |-> FALSE, late |-> FALSE]

\* the debounce effect body: setTimeout(..., USE_DEMO_SIGNALS ? 0 : 600)
NewTimerImmediate(d, bias, t) ==
  [due |-> t, trigger |-> IF d THEN "manual" ELSE "auto", bias |-> bias]
NewTimer(d, bias, t) ==
  [due |-> t + (IF d THEN DEMO_DELAY_MS ELSE DEBOUNCE_MS),
   trigger |-> IF d THEN "manual" ELSE "auto",
   bias |-> bias]

\* cleanup of the debounce effect: clearTimeout(debounce)
ClearTimeoutNoop(ts, handle) == ts
ClearTimeout(ts, handle) == ts \ {handle}

\* the component mounted with USE_DEMO_SIGNALS = d and DEMO_WEIGHT = w
Mount(d, w) ==
  /\ demo = d
  /\ mounted = TRUE
  /\ focus = "price"
  /\ weight = w
  /\ effectiveBias = snapWeight(weight)
  /\ wallet = <<>>
  /\ recStatus = "idle"
  /\ recommendations = <<>>
  /\ clusterInsight = Null
  /\ modelMessage = Null
  /\ lastRunAt = Null
  /\ narrativeCopy = DEFAULT_NARRATIVE
  /\ inferenceController = 0
  /\ walletRef = wallet
  /\ weightRef = effectiveBias
  /\ calls = <<>>
  /\ lastRequest = NoRequest
  /\ now = 0
  /\ debounce = NewTimer(demo, effectiveBias, 0)
  /\ timers = {debounce}
  /\ lastChangeAt = 0
  /\ autoSinceChange = 0
  /\ manualSinceChange = FALSE
  /\ applied = NothingApplied
  /\ lastDelivery = NoDelivery
  /\ maxDelivered = 0
  /\ currentFailed = FALSE

Init == \E d \in BOOLEAN, w \in DemoWeights : Mount(d, w)

\* useEffect(() => { weightRef.current = effectiveBias }, [effectiveBias])
SyncWeightRefRaw(newWeight, newBias) == newWeight
SyncWeightRef(newWeight, newBias) == newBias

\* the deps [effectiveBias, runInference] of the debounce effect changed;
\* runInference (deps [weight]) is a new function when weight changed
DebounceDepsChangedBiasOnly(newWeight, newBias) == newBias # effectiveBias
DebounceDepsChanged(newWeight, newBias) ==
  newBias # effectiveBias \/ newWeight # weight

\* The render after a handler and the effects it schedules: the ref-sync
\* effects, and the debounce effect when effectiveBias or runInference
\* (deps [weight]) changed.
Commit(newWeight, newBias, newWallet) ==
  /\ weight' = newWeight
  /\ effectiveBias' = newBias
  /\ wallet' = newWallet
  /\ walletRef' = newWallet
  /\ weightRef' = SyncWeightRef(newWeight, newBias)
  /\ IF DebounceDepsChanged(newWeight, newBias)
     THEN /\ debounce' = NewTimer(demo, newBias, now)
          /\ timers' = ClearTimeout(timers, debounce) \cup {debounce'}
          /\ lastChangeAt' = now
          /\ autoSinceChange' = 0
          /\ manualSinceChange' = FALSE
     ELSE UNCHANGED timerVars

handleWeightChange(value) ==
  /\ LET snapped == snapWeight(value)
     IN /\ focus' = IF snapped >= 50 THEN "price" ELSE "sentiment"
        /\ Commit(value, snapped, wallet)
  /\ UNCHANGED <<demo, mounted, resultVars, netVars, now, applied, histVars>>

\* const nextWeight = mode === "price" ? 75 : 25
selectFocusSwapped(mode) ==
  IF mode = "price" THEN SENTIMENT_FOCUS_WEIGHT ELSE PRICE_FOCUS_WEIGHT
selectFocus(mode) ==
  IF mode = "price" THEN PRICE_FOCUS_WEIGHT ELSE SENTIMENT_FOCUS_WEIGHT

\* setEffectiveBias(snapWeight(nextWeight))
FocusBiasKept(nextWeight) == effectiveBias
FocusBias(nextWeight) == snapWeight(nextWeight)

handleFocusChange(mode) ==
  /\ focus' = mode
  /\ LET nextWeight == selectFocus(mode)
     IN Commit(nextWeight, FocusBias(nextWeight), wallet)
  /\ UNCHANGED <<demo, mounted, resultVars, netVars, now, applied, histVars>>

\* the wallet input is disabled in demo mode
handleWalletChange(value) ==
  /\ ~demo
  /\ Commit(weight, effectiveBias, value)
  /\ UNCHANGED <<demo, mounted, focus, resultVars, netVars, now, applied, histVars>>


\* ------------------------------------------------------ RequestCoordinator
\* the request body, with the trigger that caused it
Payload(trigger, bias, pw, w) ==
  [trigger |-> trigger, bias |-> bias, price_weight |-> pw,
   sentiment_weight |-> SentimentWeightOf(pw), wallet |-> w]

\* a fresh AbortController and the fetch awaiting its response
NewCall == [aborted |-> FALSE, stage |-> "fetch"]

\* inferenceController.current?.abort()
AbortCurrentNoop(cs, current) == cs
AbortCurrent(cs, current) ==
  IF current = 0 THEN cs
  ELSE [cs EXCEPT ![current].aborted = TRUE]

\* if (USE_DEMO_SIGNALS) ... take the local snapshot
UseDemoBranchNever(d) == FALSE
UseDemoBranch(d) == d

\* runInference up to its first await.  bias is Undefined or Some(number).
runInference(trigger, bias, includeWallet) ==
  LET eb == IF ~Nullish(bias) THEN ValueOf(bias) ELSE weightRef
      priceWeight == PriceWeightOf(eb)
      trimmed == Trim(walletRef)
      w == IF includeWallet /\ Len(trimmed) > 0 THEN Some(trimmed) ELSE Null
  IN IF UseDemoBranch(demo)
     THEN /\ recommendations' = DEMO_RECOMMENDATIONS
          /\ clusterInsight' = Some(DEMO_CLUSTER)
          /\ modelMessage' = Some(DEMO_MESSAGE)
          /\ lastRunAt' = Some(IsoNow(now))
          /\ narrativeCopy' = DEMO_NARRATIVE
          /\ recStatus' = "idle"
          /\ applied' = [kind |-> "demo", gen |-> 0, body |-> Null,
                         cause |-> "none"]
          /\ UNCHANGED <<netVars, currentFailed>>
     ELSE /\ Len(calls) < MaxCalls
          /\ calls' = Append(AbortCurrent(calls, inferenceController), NewCall)
          /\ lastRequest' = Payload(trigger, eb, priceWeight, w)
          /\ inferenceController' = Len(calls) + 1
          /\ currentFailed' = FALSE
          /\ recStatus' = "loading"
          /\ modelMessage' = Some(IF trigger = "auto" THEN AUTO_MESSAGE
                                  ELSE MANUAL_MESSAGE)
          /\ UNCHANGED <<recommendations, clusterInsight, lastRunAt,
                         narrativeCopy, applied>>

\* the button is disabled while loading and in demo mode
RunButtonEnabled == recStatus # "loading" /\ ~demo

handleRunSignal ==
  /\ RunButtonEnabled
  /\ runInference("manual", Undefined, TRUE)
  /\ manualSinceChange' = TRUE
  /\ UNCHANGED <<demo, mounted, prefVars, timers, debounce, lastChangeAt,
                 autoSinceChange, now, lastDelivery, maxDelivered>>

\* the callback passes no includeWallet: it defaults to false
TimerIncludeWalletOn == TRUE
TimerIncludeWallet == FALSE

\* the setTimeout callback of the debounce effect
TimerFires(t) ==
  /\ t \in timers
  /\ t.due <= now
  /\ timers' = timers \ {t}
  /\ runInference(t.trigger, Some(t.bias), TimerIncludeWallet)
  /\ autoSinceChange' = autoSinceChange + 1
  /\ UNCHANGED <<demo, mounted, prefVars, debounce, lastChangeAt, manualSinceChange,
                 now, lastDelivery, maxDelivered>>

\* time passes; a timer that is due runs before the clock moves on
Tick ==
  /\ now + Step <= MaxTime
  /\ \A t \in timers : t.due > now
  /\ now' = now + Step
  /\ UNCHANGED <<demo, mounted, prefVars, resultVars, netVars, timerVars, applied, histVars>>

\* The render after a completion: effectiveBias and runInference (deps
\* [weight]) are unchanged, so the debounce effect does not run again.
CompletionRenderRearms ==
  /\ debounce' = NewTimer(demo, effectiveBias, now)
  /\ timers' = ClearTimeout(timers, debounce) \cup {debounce'}
  /\ UNCHANGED <<lastChangeAt, autoSinceChange, manualSinceChange>>
CompletionRender == UNCHANGED timerVars

\* if (controller.signal.aborted) return;
SignalAbortedNever(id) == FALSE
SignalAborted(id) == calls[id].aborted

CatchSignalAbortedNever(id) == FALSE
CatchSignalAborted(id) == calls[id].aborted

Settle(id, next, outcome) ==
  /\ calls' = [calls EXCEPT ![id].stage = next]
  /\ IF next = "done"
     THEN /\ lastDelivery' = [gen |-> id, aborted |-> calls[id].aborted,
                              failed |-> outcome # "body",
                              late |-> id < maxDelivered]
          /\ maxDelivered' = Max(maxDelivered, id)
          /\ currentFailed' = (currentFailed
                                 \/ (/\ id = inferenceController
                                     /\ ~calls[id].aborted
                                     /\ outcome # "body"))
     ELSE UNCHANGED histVars
  /\ UNCHANGED <<inferenceController, lastRequest>>

\* status the catch block leaves behind
CatchStatusIdle == "idle"
CatchStatus == "error"

\* recommendations the catch block stores
FallbackRecommendationsEmpty == <<>>
FallbackRecommendations == DEMO_RECOMMENDATIONS

\* what the catch block caught: a rejected fetch or the Error thrown for
\* !response.ok, or a failure to decode response.json()
FailureClass(outcome) ==
  IF outcome \in {"http_error", "reject"} THEN "transport" ELSE "decode"

\* narrative the catch block stores
FallbackNarrativeKept == narrativeCopy
FallbackNarrative == DEFAULT_NARRATIVE

\* the catch block of runInference, entered for the given outcome
Catch(id, outcome) ==
  IF CatchSignalAborted(id)
  THEN UNCHANGED <<resultVars, applied>>
  ELSE /\ recStatus' = CatchStatus
       /\ recommendations' = FallbackRecommendations
       /\ clusterInsight' = Some(DEMO_CLUSTER)
       /\ modelMessage' = Some(FALLBACK_MESSAGE)
       /\ lastRunAt' = Some(IsoNow(now))
       /\ narrativeCopy' = FallbackNarrative
       /\ applied' = [kind |-> "fallback", gen |-> id, body |-> Null,
                      cause |-> FailureClass(outcome)]

\* status stored with a live result
LiveStatusLoading == "loading"
LiveStatus == "idle"

\* the projection of a decoded body into the display state
ProjectNoDefaults(body, t) ==
  [recommendations |-> ValueOf(Coalesce(body.recommendations, Some(<<>>))),
   clusterInsight |-> body.cluster,
   modelMessage |-> body.message,
   lastRunAt |-> body.generated_at,
   narrativeCopy |-> ValueOf(Coalesce(body.narrative, Some(DEMO_NARRATIVE)))]
Project(body, t) ==
  [recommendations |-> ValueOf(Coalesce(body.recommendations, Some(<<>>))),
   clusterInsight |-> Coalesce(body.cluster, Null),
   modelMessage |-> Coalesce(body.message, Null),
   lastRunAt |-> Coalesce(body.generated_at, Some(IsoNow(t))),
   narrativeCopy |-> ValueOf(Coalesce(body.narrative, Some(DEFAULT_NARRATIVE)))]

\* the fetch promise settles: a response (ok or not) or a rejection
FetchOutcomes == {"ok", "http_error", "reject"}
FetchSettles(id, outcome) ==
  /\ id \in 1..Len(calls)
  /\ calls[id].stage = "fetch"
  /\ IF outcome = "ok"
     THEN /\ Settle(id, "json", outcome)
          /\ UNCHANGED <<resultVars, applied>>
     ELSE /\ Settle(id, "done", outcome)
          /\ Catch(id, outcome)
  /\ CompletionRender
  /\ UNCHANGED <<demo, mounted, prefVars, now>>

\* response.json() resolves: decoded is Null (the JSON text "null") or
\* Some(body)
JsonResolves(id, decoded) ==
  /\ id \in 1..Len(calls)
  /\ calls[id].stage = "json"
  /\ Settle(id, "done", IF Nullish(decoded) THEN "null_body" ELSE "body")
  /\ IF SignalAborted(id)
     THEN UNCHANGED <<resultVars, applied>>
     ELSE IF Nullish(decoded)
     THEN Catch(id, "null_body")  \* body.recommendations throws a TypeError
     ELSE LET p == Project(ValueOf(decoded), now)
          IN /\ recommendations' = p.recommendations
             /\ clusterInsight' = p.clusterInsight
             /\ modelMessage' = p.modelMessage
             /\ lastRunAt' = p.lastRunAt
             /\ narrativeCopy' = p.narrativeCopy
             /\ recStatus' = LiveStatus
             /\ applied' = [kind |-> "live", gen |-> id, body |-> decoded,
                            cause |-> "none"]
  /\ CompletionRender
  /\ UNCHANGED <<demo, mounted, prefVars, now>>

\* await response.json() sits inside the try block: its rejection is caught
DecodeFailureEscapes(id) == UNCHANGED <<resultVars, applied>>
DecodeFailure(id) == Catch(id, "decode_error")

\* response.json() rejects: the body does not decode, or the read was aborted
JsonRejects(id) ==
  /\ id \in 1..Len(calls)
  /\ calls[id].stage = "json"
  /\ Settle(id, "done", "decode_error")
  /\ DecodeFailure(id)
  /\ CompletionRender
  /\ UNCHANGED <<demo, mounted, prefVars, now>>

Next ==
  \/ \E v \in Weights : handleWeightChange(v)
  \/ \E m \in FocusModes : handleFocusChange(m)
  \/ \E s \in Wallets : handleWalletChange(s)
  \/ handleRunSignal
  \/ \E t \in timers : TimerFires(t)
  \/ Tick
  \/ \E id \in 1..MaxCalls, o \in FetchOutcomes : FetchSettles(id, o)
  \/ \E id \in 1..MaxCalls : \E d \in Decoded(id) : JsonResolves(id, d)
  \/ \E id \in 1..MaxCalls : JsonRejects(id)

Spec == Init /\ [][Next]_vars

\* every dispatched call eventually resolves or fails
Complete(id) ==
  \/ \E o \in FetchOutcomes : FetchSettles(id, o)
  \/ \E d \in Decoded(id) : JsonResolves(id, d)
  \/ JsonRejects(id)
LiveSpec == Spec /\ \A id \in 1..MaxCalls : WF_vars(Complete(id))

\* ------------------------------------------------------------- unmounting
\* the cleanups run at unmount: inferenceController.current?.abort() and
\* clearTimeout(debounce)
Unmount ==
  /\ mounted
  /\ mounted' = FALSE
  /\ calls' = AbortCurrent(calls, inferenceController)
  /\ timers' = ClearTimeout(timers, debounce)
  /\ UNCHANGED <<demo, prefVars, resultVars, inferenceController, lastRequest,
                 debounce, lastChangeAt, autoSinceChange, manualSinceChange,
                 now, applied, histVars>>

\* a session that may end: the controls exist only while mounted; timers and
\* promise continuations run whenever they are due
UnmountNext ==
  \/ mounted /\ \E v \in Weights : handleWeightChange(v)
  \/ mounted /\ \E m \in FocusModes : handleFocusChange(m)
  \/ mounted /\ handleRunSignal
  \/ \E t \in timers : TimerFires(t)
  \/ Tick
  \/ \E id \in 1..MaxCalls, o \in FetchOutcomes : FetchSettles(id, o)
  \/ \E id \in 1..MaxCalls : \E d \in Decoded(id) : JsonResolves(id, d)
  \/ \E id \in 1..MaxCalls : JsonRejects(id)
  \/ Unmount
UnmountSpec == Init /\ [][UnmountNext]_vars

\* ------------------------------------------------ refactored page variant
\* The refactored page keeps the same state; its runInference is memoized on
\* [effectiveBias, recStatus] and reads both from the render that made it.

\* the debounce effect body; status is the recStatus seen by the runInference
\* the callback will call
NewTimerRefactored(d, bias, status, t) ==
  [due |-> t + (IF d THEN DEMO_DELAY_MS ELSE DEBOUNCE_MS),
   trigger |-> IF d THEN "manual" ELSE "auto",
   bias |-> bias,
   status |-> status]

MountRefactored(d, w) ==
  /\ demo = d
  /\ mounted = TRUE
  /\ focus = "price"
  /\ weight = w
  /\ effectiveBias = snapWeight(weight)
  /\ wallet = <<>>
  /\ recStatus = "idle"
  /\ recommendations = <<>>
  /\ clusterInsight = Null
  /\ modelMessage = Null
  /\ lastRunAt = Null
  /\ narrativeCopy = DEFAULT_NARRATIVE
  /\ inferenceController = 0
  /\ walletRef = <<>>
  /\ weightRef = effectiveBias
  /\ calls = <<>>
  /\ lastRequest = NoRequest
  /\ now = 0
  /\ debounce = NewTimerRefactored(demo, effectiveBias, recStatus, 0)
  /\ timers = {debounce}
  /\ lastChangeAt = 0
  /\ autoSinceChange = 0
  /\ manualSinceChange = FALSE
  /\ applied = NothingApplied
  /\ lastDelivery = NoDelivery
  /\ maxDelivered = 0
  /\ currentFailed = FALSE

\* the deps [effectiveBias, runInference] of the debounce effect changed;
\* runInference (deps [effectiveBias, recStatus]) is a new function when
\* either changed
DepsChangedRefactored(newBias, newStatus) ==
  newBias # effectiveBias \/ newStatus # recStatus

\* The debounce effect after a render: ts are the timers still pending.
RenderRefactored(ts, newBias, newStatus) ==
  IF DepsChangedRefactored(newBias, newStatus)
  THEN /\ debounce' = NewTimerRefactored(demo, newBias, newStatus, now)
       /\ timers' = ClearTimeout(ts, debounce) \cup {debounce'}
       /\ lastChangeAt' = now
  ELSE /\ timers' = ts
       /\ UNCHANGED <<debounce, lastChangeAt>>

handleSliderInput(value) ==
  /\ LET snapped == snapWeight(value)
     IN /\ weight' = value
        /\ focus' = IF snapped >= 50 THEN "price" ELSE "sentiment"
        /\ effectiveBias' = snapped
        /\ weightRef' = snapped
        /\ RenderRefactored(timers, snapped, recStatus)
  /\ autoSinceChange' = 0
  /\ UNCHANGED <<demo, mounted, wallet, walletRef, resultVars, netVars,
                 manualSinceChange, now, applied, histVars>>

\* setFocus(mode); setWeight(mode === "price" ? 75 : 25)
handleFocusChangeRefactored(mode) ==
  /\ focus' = mode
  /\ weight' = selectFocus(mode)
  /\ RenderRefactored(timers, effectiveBias, recStatus)
  /\ UNCHANGED <<demo, mounted, effectiveBias, weightRef, wallet, walletRef,
                 resultVars, netVars, autoSinceChange, manualSinceChange, now,
                 applied, histVars>>

\* onWalletChange={setWallet}; the input is disabled in demo mode
setWallet(value) ==
  /\ ~demo
  /\ wallet' = value
  /\ walletRef' = value
  /\ UNCHANGED <<demo, mounted, focus, weight, effectiveBias, weightRef,
                 resultVars, netVars, timerVars, now, applied, histVars>>

\* the request body: no clamping, no trimming; wallet is left out (undefined)
\* unless includeWallet
PayloadRefactored(trigger, bias, includeWallet) ==
  [trigger |-> trigger, bias |-> bias, price_weight |-> bias,
   sentiment_weight |-> 100 - bias,
   wallet |-> IF includeWallet THEN Some(walletRef) ELSE Undefined]

\* if (recStatus === "loading" && trigger === "auto") return;
DedupeAutoNever(status, trigger) == FALSE
DedupeAuto(status, trigger) == status = "loading" /\ trigger = "auto"

\* runInference of the refactored page up to its first await.  closureBias
\* and closureStatus are the effectiveBias and recStatus of the render that
\* made the function; ts are the timers pending when it is called.
runInferenceRefactored(trigger, bias, includeWallet, closureBias, closureStatus, ts) ==
  IF UseDemoBranch(demo)
  THEN /\ recommendations' = DEMO_RECOMMENDATIONS
       /\ clusterInsight' = Some(DEMO_CLUSTER)
       /\ narrativeCopy' = DEMO_NARRATIVE
       /\ lastRunAt' = Some(IsoNow(now))
       /\ applied' = [kind |-> "demo", gen |-> 0, body |-> Null,
                      cause |-> "none"]
       /\ timers' = ts
       /\ UNCHANGED <<recStatus, modelMessage, netVars, currentFailed,
                      debounce, lastChangeAt>>
  ELSE IF DedupeAuto(closureStatus, trigger)
  THEN /\ timers' = ts
       /\ UNCHANGED <<resultVars, netVars, applied, currentFailed, debounce,
                      lastChangeAt>>
  ELSE /\ Len(calls) < MaxCalls
       /\ calls' = Append(AbortCurrent(calls, inferenceController), NewCall)
       /\ inferenceController' = Len(calls) + 1
       /\ lastRequest' = PayloadRefactored(trigger, Coalesce(bias, Some(closureBias))[2],
                                           includeWallet)
       /\ currentFailed' = FALSE
       /\ recStatus' = "loading"
       /\ RenderRefactored(ts, effectiveBias, "loading")
       /\ UNCHANGED <<recommendations, clusterInsight, modelMessage,
                      lastRunAt, narrativeCopy, applied>>

\* onClick={() => onRunSignal(true)}, disabled while loading and in demo mode
handleRunSignalRefactored ==
  /\ RunButtonEnabled
  /\ runInferenceRefactored("manual", Undefined, TRUE, effectiveBias, recStatus, timers)
  /\ manualSinceChange' = TRUE
  /\ UNCHANGED <<demo, mounted, prefVars, autoSinceChange, now, lastDelivery,
                 maxDelivered>>

\* runInference({trigger: "manual", includeWallet}) called whatever the status
RunManualRefactored ==
  /\ ~demo
  /\ runInferenceRefactored("manual", Undefined, TRUE, effectiveBias, recStatus, timers)
  /\ manualSinceChange' = TRUE
  /\ UNCHANGED <<demo, mounted, prefVars, autoSinceChange, now, lastDelivery,
                 maxDelivered>>

\* the setTimeout callback of the debounce effect; autoSinceChange counts
\* the callbacks run since the last slider input
TimerFiresRefactored(t) ==
  /\ t \in timers
  /\ t.due <= now
  /\ runInferenceRefactored(t.trigger, Some(t.bias), FALSE, t.bias, t.status,
                            timers \ {t})
  /\ autoSinceChange' = autoSinceChange + 1
  /\ UNCHANGED <<demo, mounted, prefVars, manualSinceChange, now, lastDelivery,
                 maxDelivered>>

\* the catch block for an error other than AbortError
CatchRefactored(id, outcome) ==
  /\ recommendations' = DEMO_RECOMMENDATIONS
  /\ clusterInsight' = Some(DEMO_CLUSTER)
  /\ modelMessage' = Some(FALLBACK_MESSAGE)
  /\ lastRunAt' = Some(IsoNow(now))
  /\ narrativeCopy' = DEFAULT_NARRATIVE
  /\ recStatus' = "error"
  /\ applied' = [kind |-> "fallback", gen |-> id, body |-> Null,
                 cause |-> FailureClass(outcome)]
  /\ RenderRefactored(timers, effectiveBias, "error")

\* An aborted call settles with an AbortError, which the catch block drops.
AbortErrorDropped(id) ==
  /\ Settle(id, "done", "abort")
  /\ UNCHANGED <<resultVars, applied, timers, debounce, lastChangeAt>>

FetchSettlesRefactored(id, outcome) ==
  /\ id \in 1..Len(calls)
  /\ calls[id].stage = "fetch"
  /\ IF calls[id].aborted
     THEN AbortErrorDropped(id)
     ELSE IF outcome = "ok"
     THEN /\ Settle(id, "json", outcome)
          /\ UNCHANGED <<resultVars, applied, timers, debounce, lastChangeAt>>
     ELSE /\ Settle(id, "done", outcome)
          /\ CatchRefactored(id, outcome)
  /\ UNCHANGED <<demo, mounted, prefVars, autoSinceChange, manualSinceChange,
                 now>>

\* response.json() resolves and the setters after it run (no aborted check)
JsonResolvesRefactored(id, decoded) ==
  /\ id \in 1..Len(calls)
  /\ calls[id].stage = "json"
  /\ IF calls[id].aborted
     THEN AbortErrorDropped(id)
     ELSE /\ Settle(id, "done", IF Nullish(decoded) THEN "null_body" ELSE "body")
          /\ IF Nullish(decoded)
             THEN CatchRefactored(id, "null_body")
             ELSE LET p == Project(ValueOf(decoded), now)
                  IN /\ recommendations' = p.recommendations
                     /\ clusterInsight' = p.clusterInsight
                     /\ modelMessage' = p.modelMessage
                     /\ narrativeCopy' = p.narrativeCopy
                     /\ lastRunAt' = p.lastRunAt
                     /\ recStatus' = "idle"
                     /\ applied' = [kind |-> "live", gen |-> id,
                                    body |-> decoded, cause |-> "none"]
                     /\ RenderRefactored(timers, effectiveBias, "idle")
  /\ UNCHANGED <<demo, mounted, prefVars, autoSinceChange, manualSinceChange,
                 now>>

JsonRejectsRefactored(id) ==
  /\ id \in 1..Len(calls)
  /\ calls[id].stage = "json"
  /\ IF calls[id].aborted
     THEN AbortErrorDropped(id)
     ELSE /\ Settle(id, "done", "decode_error")
          /\ CatchRefactored(id, "decode_error")
  /\ UNCHANGED <<demo, mounted, prefVars, autoSinceChange, manualSinceChange,
                 now>>

RefactoredInit == \E d \in BOOLEAN, w \in DemoWeights : MountRefactored(d, w)

RefactoredNext ==
  \/ \E v \in Weights : handleSliderInput(v)
  \/ \E m \in FocusModes : handleFocusChangeRefactored(m)
  \/ \E s \in Wallets : setWallet(s)
  \/ handleRunSignalRefactored
  \/ \E t \in timers : TimerFiresRefactored(t)
  \/ Tick
  \/ \E id \in 1..MaxCalls, o \in FetchOutcomes : FetchSettlesRefactored(id, o)
  \/ \E id \in 1..MaxCalls : \E d \in Decoded(id) : JsonResolvesRefactored(id, d)
  \/ \E id \in 1..MaxCalls : JsonRejectsRefactored(id)

RefactoredSpec == RefactoredInit /\ [][RefactoredNext]_vars

\* The coordinator on its own: runInference({trigger: "manual"}) may be called
\* in any state, not only through the Run button.
CoordinatorInit == MountRefactored(FALSE, DEFAULT_DEMO_WEIGHT)

CoordinatorNext ==
  \/ \E v \in Weights : handleSliderInput(v)
  \/ RunManualRefactored
  \/ \E t \in timers : TimerFiresRefactored(t)
  \/ Tick
  \/ \E id \in 1..MaxCalls, o \in FetchOutcomes : FetchSettlesRefactored(id, o)
  \/ \E id \in 1..MaxCalls : \E d \in Decoded(id) : JsonResolvesRefactored(id, d)
  \/ \E id \in 1..MaxCalls : JsonRejectsRefactored(id)

CoordinatorSpec == CoordinatorInit /\ [][CoordinatorNext]_vars

\* ------------------------------------------------- BiasMapper in isolation
\* runInference called with an explicit bias argument
RunWithBias(b) ==
  /\ runInference("manual", Some(b), FALSE)
  /\ UNCHANGED <<demo, mounted, prefVars, timerVars, now, lastDelivery, maxDelivered>>

BiasInit == \E w \in RawWeights : Mount(FALSE, w)
BiasNext ==
  \/ \E v \in RawWeights : handleWeightChange(v)
  \/ \E b \in BiasInputs : RunWithBias(b)
BiasSpec == BiasInit /\ [][BiasNext]_vars

\* --------------------------------------------- ResultProjector in isolation
\* the run of the mount timer against a service that answers 200 with any of
\* the bodies
ProjectInit == Mount(FALSE, DEFAULT_DEMO_WEIGHT)
ProjectNext ==
  \/ \E t \in timers : TimerFires(t)
  \/ Tick
  \/ \E id \in 1..MaxCalls : FetchSettles(id, "ok")
  \/ \E id \in 1..MaxCalls : \E d \in AllDecoded(id) : JsonResolves(id, d)
ProjectSpec == ProjectInit /\ [][ProjectNext]_vars

\* ------------------------------------------------- a session left alone
\* the page mounted with demo mode off and any DEMO_WEIGHT, and no user event
IdleInit == \E w \in RawWeights : Mount(FALSE, w)
IdleNext ==
  \/ \E t \in timers : TimerFires(t)
  \/ Tick
  \/ \E id \in 1..MaxCalls, o \in FetchOutcomes : FetchSettles(id, o)
  \/ \E id \in 1..MaxCalls : \E d \in Decoded(id) : JsonResolves(id, d)
  \/ \E id \in 1..MaxCalls : JsonRejects(id)
IdleSpec == IdleInit /\ [][IdleNext]_vars

\* ------------------------------------------------- wallet hint in isolation
\* any wallet text typed, manual runs, the debounce timer, and calls that
\* end (here: by a rejected fetch) so that the Run button is enabled again
WalletInit == Mount(FALSE, DEFAULT_DEMO_WEIGHT)
WalletNext ==
  \/ \E s \in AllWallets : handleWalletChange(s)
  \/ handleRunSignal
  \/ \E t \in timers : TimerFires(t)
  \/ Tick
  \/ \E id \in 1..MaxCalls : FetchSettles(id, "reject")
WalletSpec == WalletInit /\ [][WalletNext]_vars

\* ------------------------------------------------------------- properties
Outstanding(id) == calls[id].stage # "done"
\* a step in which a promise of call id settles
Settling(id) == calls'[id].stage # calls[id].stage
\* a step in which the debounce timer runs its callback
TimerRan == autoSinceChange' > autoSinceChange

\* C1: with demo mode off, at most one quiescence timer is pending at any
\* time; after a burst of changes that each re-arm the timer within the
\* window, the timer runs exactly once, one window (600 ms) after the last
\* change, and dispatches one call whose price weight is the last effective
\* bias / 100.
C1_DebounceBurst ==
  /\ [](~demo =>
         /\ Cardinality(timers) <= 1
         /\ autoSinceChange <= 1
         /\ (now > lastChangeAt + DEBOUNCE_MS => autoSinceChange = 1)
         /\ (autoSinceChange = 0 => timers = {debounce}))
  /\ [][(~demo /\ TimerRan) =>
         /\ now = lastChangeAt + DEBOUNCE_MS
         /\ timers' = {}
         /\ Len(calls') = Len(calls) + 1
         /\ lastRequest'.price_weight = effectiveBias
         /\ lastRequest'.sentiment_weight = 100 - effectiveBias]_vars

\* C1 witness: the timer armed at mount was replaced by a change made inside
\* its window, and the only call ever dispatched left one window after that
\* change with the bias of that change.
C1_Witness ==
  /\ ~demo
  /\ lastChangeAt = Step
  /\ now = Step + DEBOUNCE_MS
  /\ autoSinceChange = 1
  /\ Len(calls) = 1
  /\ lastRequest.trigger = "auto"
  /\ lastRequest.price_weight = effectiveBias
  /\ effectiveBias # snapWeight(DEFAULT_DEMO_WEIGHT)

\* the four stored fields are what the outcome recorded in a prescribes
StoredMatches(a) ==
  IF a.kind = "live"
  THEN LET p == Project(ValueOf(a.body), now)
       IN /\ recommendations = p.recommendations
          /\ clusterInsight = p.clusterInsight
          /\ modelMessage = p.modelMessage
          /\ narrativeCopy = p.narrativeCopy
  ELSE /\ a.kind = "fallback"
       /\ recommendations = DEMO_RECOMMENDATIONS
       /\ clusterInsight = Some(DEMO_CLUSTER)
       /\ modelMessage = Some(FALLBACK_MESSAGE)
       /\ narrativeCopy = DEFAULT_NARRATIVE

\* C2: results are applied in dispatch order: a call whose completion is
\* delivered after that of a later-dispatched call is never the one whose
\* result is stored, and once the latest dispatched call has completed the
\* stored recommendations, cluster, message and narrative are those of its
\* outcome, whatever older completions arrive afterwards.
C2_DispatchOrder ==
  /\ lastDelivery.late => applied.gen # lastDelivery.gen
  /\ (inferenceController # 0 /\ ~Outstanding(inferenceController))
       => /\ applied.gen = inferenceController
          /\ applied.body \in Decoded(inferenceController)
          /\ StoredMatches(applied)

\* C2 witness: A = call 1, B = call 2; B's response was delivered first and
\* A's (a success) afterwards; the stored result is B's.
C2_Witness ==
  /\ Len(calls) = 2
  /\ lastDelivery = [gen |-> 1, aborted |-> TRUE, failed |-> FALSE, late |-> TRUE]
  /\ applied = [kind |-> "live", gen |-> 2, body |-> Some(LiveBody(2)),
               cause |-> "none"]
  /\ recommendations = LiveRecommendations(2)
  /\ narrativeCopy = LiveNarrative(2)

\* C3 (claim as stated): a manual run cancels the pending quiescence timer:
\* once a manual run has followed the last slider or focus change, the timer
\* armed by that change never runs its callback.
C3_ManualCancelsTimer ==
  [][(manualSinceChange /\ weight \notin DemoWeights) => ~TimerRan]_vars

\* C4: the settling of a promise of a superseded (aborted) call changes
\* nothing of status, recommendations, cluster, message, narrative and
\* lastRunAt; status stays Loading while the newer call is outstanding.
C4_StaleDiscarded ==
  [][\A id \in 1..Len(calls) :
       (calls[id].aborted /\ Settling(id))
         => /\ UNCHANGED resultVars
            /\ (Outstanding(inferenceController) => recStatus' = "loading")]_vars

\* C4 witness: a superseded call has completed successfully while the newer
\* call is still outstanding and the status is still Loading.
C4_Witness ==
  /\ Len(calls) = 2
  /\ Outstanding(2)
  /\ recStatus = "loading"
  /\ lastDelivery = [gen |-> 1, aborted |-> TRUE, failed |-> FALSE, late |-> FALSE]
  /\ applied.kind = "none"

\* C5: at most one dispatched call is current: every call but the latest has
\* been aborted, so two non-aborted calls are never outstanding together.
C5_OneCurrentCall ==
  /\ Cardinality({id \in 1..Len(calls) : ~calls[id].aborted /\ Outstanding(id)}) <= 1
  /\ \A id \in 1..Len(calls) : id # Len(calls) => calls[id].aborted
  /\ inferenceController = Len(calls)

\* C5 witness: two calls are physically in flight, the older one aborted.
C5_Witness ==
  /\ Len(calls) = 2
  /\ Outstanding(1) /\ calls[1].aborted
  /\ Outstanding(2) /\ ~calls[2].aborted

\* C6: when the current call fails genuinely (non-2xx, rejected fetch,
\* undecodable body; call not aborted) the status is Error, the stored
\* recommendations are the fixed fallback list and the message is the fixed
\* fallback message.
C6_FailureFallsBack ==
  currentFailed
    => /\ recStatus = "error"
       /\ recommendations = DEMO_RECOMMENDATIONS
       /\ modelMessage = Some(FALLBACK_MESSAGE)

\* C6 witness: the second call, current and not aborted, failed; the fallback
\* is stored with status Error.
C6_Witness ==
  /\ currentFailed
  /\ inferenceController = 2
  /\ lastDelivery = [gen |-> 2, aborted |-> FALSE, failed |-> TRUE, late |-> FALSE]
  /\ recStatus = "error"
  /\ recommendations = DEMO_RECOMMENDATIONS

\* C7 (claim as stated): once the fallback snapshot and message are stored
\* after a genuine failure of the current call, the status is Idle.
C7_ErrorTransient == currentFailed => recStatus = "idle"

\* C7 (amended): after a genuine failure of the current call the status is
\* Error and it stays Error until the next run is dispatched; it never
\* returns to Idle without a further run.
C7_ErrorPersists ==
  /\ [](currentFailed => recStatus = "error")
  /\ [][recStatus = "error" =>
          \/ recStatus' = "error"
          \/ /\ recStatus' = "loading"
             /\ Len(calls') = Len(calls) + 1]_vars

\* C7 witness: time has passed and the wallet text was edited since the
\* failure, and the status is still Error.
C7_Witness ==
  /\ currentFailed
  /\ recStatus = "error"
  /\ lastRunAt # Some(IsoNow(now))
  /\ wallet # <<>>
  /\ applied.kind = "fallback"

\* C8: cancellation never surfaces as an error: no outcome of a superseded
\* (aborted) call sets the status to Error or stores the fallback snapshot
\* or the fallback message.
C8_CancelNeverError ==
  [][\A id \in 1..Len(calls) :
       (calls[id].aborted /\ Settling(id))
         => /\ recStatus' = "error" => recStatus = "error"
            /\ modelMessage' = Some(FALLBACK_MESSAGE)
                 => modelMessage = Some(FALLBACK_MESSAGE)
            /\ applied'.kind = "fallback" => applied' = applied]_vars

\* C8 witness: a superseded call has failed, and neither Error nor the
\* fallback was stored.
C8_Witness ==
  /\ lastDelivery.aborted /\ lastDelivery.failed
  /\ recStatus # "error"
  /\ applied.kind # "fallback"
  /\ recommendations # DEMO_RECOMMENDATIONS

\* C9: in demo mode no network call is ever issued, and once a run has
\* happened (the zero-delay timer ran) the stored recommendations and cluster
\* are the fixed demo ones, for every bias value.
C9_DemoNoNetwork ==
  demo => /\ calls = <<>>
          /\ inferenceController = 0
          /\ lastRequest = NoRequest
          /\ (timers = {} \/ applied.kind # "none")
               => /\ recommendations = DEMO_RECOMMENDATIONS
                  /\ clusterInsight = Some(DEMO_CLUSTER)
                  /\ recStatus = "idle"

\* C9 witness: demo mode, the slider was moved and the run that followed
\* stored the demo snapshot.
C9_Witness ==
  /\ demo
  /\ weight \notin DemoWeights
  /\ effectiveBias = SNAP_LOW
  /\ timers = {}
  /\ autoSinceChange = 1
  /\ recommendations = DEMO_RECOMMENDATIONS
  /\ clusterInsight = Some(DEMO_CLUSTER)

\* C10: if every dispatched call eventually resolves or fails, every state
\* with status Loading is followed by a state with status Idle or Error that
\* holds a stored live or fallback result.
C10_NeverStuck ==
  (recStatus = "loading")
    ~> (recStatus \in {"idle", "error"} /\ applied.kind \in {"live", "fallback"})

\* C10 witness: a run was superseded while Loading and the superseding call
\* brought the coordinator back to Idle with a live result.
C10_Witness ==
  /\ Len(calls) = 2
  /\ lastDelivery.gen = 1 /\ lastDelivery.aborted
  /\ recStatus = "idle"
  /\ applied.kind = "live"
  /\ applied.gen = 2

\* a step in which a call is dispatched
Dispatching == Len(calls') = Len(calls) + 1
\* a step in which a setTimeout is issued
Arming == timers' \ timers # {}

\* C11: there is no automatic retry.  The settling of a call's promise
\* (applied success, fallback on failure, or discarded) never arms the
\* quiescence timer and never dispatches a call.  A call is dispatched only
\* by a manual run or by the callback of a pending timer, which that dispatch
\* uses up; a timer is armed only by a step that changes the raw weight or
\* the effective bias (or by the mount).
C11_NoAutoRetry ==
  /\ [][\A id \in 1..Len(calls) :
          Settling(id) => /\ ~Arming
                          /\ ~Dispatching
                          /\ timers' = timers
                          /\ debounce' = debounce
                          /\ Len(calls') = Len(calls)]_vars
  /\ [][Dispatching =>
          \/ /\ TimerRan
             /\ \E t \in timers : timers' = timers \ {t}
          \/ /\ manualSinceChange'
             /\ lastRequest'.trigger = "manual"
             /\ timers' = timers]_vars
  /\ [][Arming => /\ weight' # weight \/ effectiveBias' # effectiveBias
                  /\ ~Dispatching]_vars

\* C11 witness: the only call dispatched failed and its fallback was stored;
\* time has passed since, no timer is pending and no further call was made.
C11_Witness ==
  /\ ~demo
  /\ Len(calls) = 1
  /\ applied.kind = "fallback"
  /\ recStatus = "error"
  /\ timers = {}
  /\ lastRunAt # Some(IsoNow(now))

\* C12: snap(w) = 50 for every integer w in 0..49 and 60 for every integer w
\* in 50..100; these are its only two outputs; the effective bias stored for
\* a raw weight in range is that value.
C12_SnapValues ==
  /\ \A w \in 0..49 : snapWeight(w) = 50
  /\ \A w \in 50..100 : snapWeight(w) = 60
  /\ {snapWeight(w) : w \in 0..100} = {50, 60}
  /\ weight \in 0..49 => effectiveBias = 50
  /\ weight \in 50..100 => effectiveBias = 60

\* C12 witness: the raw weight is at the edge below the threshold, snapped
\* to 50, and a run has been made with the snapped value.
C12_Witness ==
  /\ weight = 49
  /\ effectiveBias = 50
  /\ weightRef = 50
  /\ Len(calls) = 1
  /\ lastRequest.bias = effectiveBias

\* C13: for every bias, in or out of 0..100, the request weights are
\* priceWeight = clamp(bias / 100, 0, 1) and sentimentWeight = 1 -
\* priceWeight, both within [0, 1] and summing to exactly 1 (in hundredths:
\* within 0..100, summing to 100); a call is dispatched for every bias.
C13_WeightsClampAndSum ==
  /\ lastRequest # NoRequest =>
       LET b == lastRequest.bias
           pw == lastRequest.price_weight
           sw == lastRequest.sentiment_weight
       IN /\ pw = (IF b < 0 THEN 0 ELSE IF b > 100 THEN 100 ELSE b)
          /\ sw = 100 - pw
          /\ pw \in 0..100
          /\ sw \in 0..100
          /\ pw + sw = 100
  /\ Len(calls) > 0 => lastRequest # NoRequest

\* C13 witness: a run with a bias above 100 was dispatched with price weight
\* 1 and sentiment weight 0.
C13_Witness ==
  /\ lastRequest.bias > 100
  /\ lastRequest.price_weight = 100
  /\ lastRequest.sentiment_weight = 0
  /\ Len(calls) = 1

\* C14: every dispatched request, debounce-fired or manual, carries a price
\* weight derived from the quantized effective bias and never from the raw
\* slider value: the effective bias (state, ref and the bias captured by a
\* pending timer) is always 50 or 60 and every dispatched price weight is 0.5
\* or 0.6.
C14_QuantizedBiasOnly ==
  /\ effectiveBias \in {50, 60}
  /\ weightRef \in {50, 60}
  /\ \A t \in timers : t.bias \in {50, 60}
  /\ lastRequest # NoRequest =>
       /\ lastRequest.bias \in {50, 60}
       /\ lastRequest.price_weight \in {50, 60}
       /\ lastRequest.price_weight = lastRequest.bias

\* C14 witness: the raw slider value is 49 and a manual run was dispatched
\* with price weight 0.5.
C14_Witness ==
  /\ weight = 49
  /\ lastRequest.trigger = "manual"
  /\ lastRequest.price_weight = 50
  /\ lastRequest.sentiment_weight = 50

\* C15: a focus toggle sets the raw weight to 75 for "price" and 25 for
\* "sentiment" and applies snap, so the effective bias becomes 60 for "price"
\* and 50 for "sentiment"; when this changes the effective bias the
\* quiescence timer is started anew, as for a slider move: the old timer is
\* cleared and one timer is pending, due one window later (at once in demo
\* mode), holding the new bias.
C15_FocusToggle ==
  [][\A m \in FocusModes :
       handleFocusChange(m) =>
         /\ focus' = m
         /\ weight' = (IF m = "price" THEN 75 ELSE 25)
         /\ effectiveBias' = (IF m = "price" THEN 60 ELSE 50)
         /\ weightRef' = effectiveBias'
         /\ effectiveBias' # effectiveBias =>
              /\ debounce' = [due |-> now + (IF demo THEN 0 ELSE 600),
                              trigger |-> IF demo THEN "manual" ELSE "auto",
                              bias |-> effectiveBias']
              /\ debounce' \in timers'
              /\ debounce \notin timers' \/ debounce = debounce'
              /\ lastChangeAt' = now
              /\ autoSinceChange' = 0]_vars

\* C15 witness: after the mount timer ran, the focus was toggled to
\* "sentiment": raw weight 25, effective bias 50, and a timer is pending for
\* one window after the toggle.
C15_Witness ==
  /\ ~demo
  /\ focus = "sentiment"
  /\ weight = 25
  /\ effectiveBias = 50
  /\ Len(calls) = 1
  /\ lastChangeAt = now
  /\ now > 0
  /\ timers = {[due |-> now + 600, trigger |-> "auto", bias |-> 50]}

\* C16: when the quiescence timer fires (demo mode off) the request it
\* dispatches has wallet = null whatever the wallet field contains, and its
\* price weight is the effective bias of the state in which the timer fires;
\* a pending timer never holds an older bias.
C16_TimerRunUsesCurrentBias ==
  /\ [](\A t \in timers : t.bias = effectiveBias)
  /\ [][(TimerRan /\ ~demo) =>
          /\ Dispatching
          /\ lastRequest'.trigger = "auto"
          /\ lastRequest'.wallet = Null
          /\ lastRequest'.bias = effectiveBias
          /\ lastRequest'.price_weight = effectiveBias
          /\ lastRequest'.sentiment_weight = 100 - effectiveBias]_vars

\* C16 witness: the wallet field holds an address, the bias was changed after
\* mount, and the timer's request went out with wallet null and that bias.
C16_Witness ==
  /\ Trim(wallet) # <<>>
  /\ walletRef = wallet
  /\ lastChangeAt > 0
  /\ effectiveBias = 50
  /\ autoSinceChange = 1
  /\ lastRequest = [trigger |-> "auto", bias |-> 50, price_weight |-> 50,
                    sentiment_weight |-> 50, wallet |-> Null]

\* a step in which response.json() of the current, non-aborted call id
\* settles with the given kind of outcome
JsonSettling(id, failed) ==
  /\ id = inferenceController
  /\ ~calls[id].aborted
  /\ calls[id].stage = "json"
  /\ calls'[id].stage = "done"
  /\ lastDelivery'.failed = failed

\* C17: a response of the current call whose body cannot be decoded is
\* handled exactly like a transport failure: the step in which the decoding
\* fails stores status Error and the fallback recommendations, cluster,
\* message and narrative, with the current time, as a transport failure
\* does; the failure is caught, so the status never stays Loading.
C17_DecodeFailureIsFailure ==
  /\ [][\A id \in 1..Len(calls) :
          JsonSettling(id, TRUE) =>
            /\ recStatus' = "error"
            /\ recommendations' = DEMO_RECOMMENDATIONS
            /\ clusterInsight' = Some(DEMO_CLUSTER)
            /\ modelMessage' = Some(FALLBACK_MESSAGE)
            /\ narrativeCopy' = DEFAULT_NARRATIVE
            /\ lastRunAt' = Some(IsoNow(now))
            /\ applied'.kind = "fallback"
            /\ applied'.gen = id]_vars
  /\ []((applied.kind = "fallback" /\ recStatus = "error") =>
          /\ recommendations = DEMO_RECOMMENDATIONS
          /\ clusterInsight = Some(DEMO_CLUSTER)
          /\ modelMessage = Some(FALLBACK_MESSAGE)
          /\ narrativeCopy = DEFAULT_NARRATIVE)

\* C17 witness: the body of the second call did not decode; Error and the
\* fallback snapshot are stored over the live result of the first call.
C17_Witness ==
  /\ applied = [kind |-> "fallback", gen |-> 2, body |-> Null,
                cause |-> "decode"]
  /\ inferenceController = 2
  /\ recStatus = "error"
  /\ recommendations = DEMO_RECOMMENDATIONS
  /\ clusterInsight = Some(DEMO_CLUSTER)
  /\ modelMessage = Some(FALLBACK_MESSAGE)
  /\ lastRunAt = Some(IsoNow(now))

\* the value a present field carries, or the default when it is left out or
\* null
Expected(field, default) == IF field \in {Undefined, Null} THEN default ELSE field[2]

\* C18: the projection of a successful response of the current call defaults
\* each absent field on its own: recommendations -> empty list, cluster -> no
\* cluster, message -> no message, narrative -> the fixed default narrative,
\* generated_at -> the current time; present fields are stored unchanged; the
\* outcome is a live result with status Idle, never a failure or a fallback.
C18_ProjectionDefaults ==
  [][\A id \in 1..Len(calls) :
       JsonSettling(id, FALSE) =>
         /\ applied'.kind = "live"
         /\ applied'.gen = id
         /\ applied'.body # Null
         /\ recStatus' = "idle"
         /\ LET b == applied'.body[2]
            IN /\ recommendations' = Expected(b.recommendations, <<>>)
               /\ clusterInsight' =
                    (IF b.cluster \in {Undefined, Null} THEN Null ELSE b.cluster)
               /\ modelMessage' =
                    (IF b.message \in {Undefined, Null} THEN Null ELSE b.message)
               /\ narrativeCopy' = Expected(b.narrative, DEFAULT_NARRATIVE)
               /\ lastRunAt' = <<"value", Expected(b.generated_at, IsoNow(now))>>]_vars

\* C18 witness: a body with only recommendations and message present was
\* projected some time after mount: the cluster is absent, the narrative is
\* the default one and the time is the time of projection.
C18_Witness ==
  /\ applied.kind = "live"
  /\ recStatus = "idle"
  /\ now > 0
  /\ recommendations = LiveRecommendations(1)
  /\ modelMessage = Some(LiveMessage(1))
  /\ clusterInsight = Null
  /\ narrativeCopy = DEFAULT_NARRATIVE
  /\ lastRunAt = Some(IsoNow(now))

\* C19: the fallback payloads are constants.  Whatever the failure cause,
\* the bias, the wallet hint and the result stored before, a stored fallback
\* consists of the same recommendations, cluster and narrative, and of the
\* same message until the next run replaces it; likewise a stored demo
\* snapshot is the same for every bias and prior result.  Two runs that
\* differ only in those inputs therefore end with equal stored values.
C19_ConstantPayloads ==
  /\ applied.kind = "fallback" =>
       /\ recommendations = DEMO_RECOMMENDATIONS
       /\ clusterInsight = Some(DEMO_CLUSTER)
       /\ narrativeCopy = DEFAULT_NARRATIVE
       /\ recStatus # "loading" => modelMessage = Some(FALLBACK_MESSAGE)
  /\ applied.kind = "demo" =>
       /\ recommendations = DEMO_RECOMMENDATIONS
       /\ clusterInsight = Some(DEMO_CLUSTER)
       /\ narrativeCopy = DEMO_NARRATIVE
       /\ modelMessage = Some(DEMO_MESSAGE)

\* C19 witness: the second call, a manual run with a wallet hint and bias 50
\* (made once the first call's outcome had been stored), ended in a
\* transport failure; the stored values are the constants.
C19_Witness ==
  /\ applied = [kind |-> "fallback", gen |-> 2, body |-> Null,
                cause |-> "transport"]
  /\ lastRequest.trigger = "manual"
  /\ lastRequest.wallet = Some(<<"x">>)
  /\ lastRequest.bias = 50
  /\ maxDelivered = 2
  /\ lastDelivery.gen = 2
  /\ ~Outstanding(1)
  /\ narrativeCopy = DEFAULT_NARRATIVE
  /\ recommendations = DEMO_RECOMMENDATIONS

\* C20: the status is Loading exactly when the current call (dispatched, not
\* superseded, not aborted) is still outstanding: never Loading when no
\* current call is in flight, never Idle or Error while the current call is
\* unresolved.
C20_LoadingIffOutstanding ==
  (recStatus = "loading")
    <=> /\ inferenceController # 0
        /\ ~calls[inferenceController].aborted
        /\ Outstanding(inferenceController)

\* C20 witness: the current call has failed and the status is Error while
\* the superseded call before it is still physically in flight.
C20_Witness ==
  /\ Len(calls) = 2
  /\ inferenceController = 2
  /\ ~Outstanding(2)
  /\ Outstanding(1)
  /\ calls[1].aborted
  /\ recStatus = "error"

\* no timer is pending and no call is outstanding
Quiescent ==
  /\ timers = {}
  /\ \A id \in 1..Len(calls) : ~Outstanding(id)

\* C21: with demo mode off, in every quiescent state (no timer pending, no
\* call outstanding) whose status is Idle after at least one dispatch, the
\* stored result is the projection of the response to the call dispatched
\* last, and the price weight of that call's request is the current effective
\* bias / 100.
C21_QuiescentResultMatchesBias ==
  (~demo /\ Quiescent /\ Len(calls) > 0 /\ recStatus = "idle")
    => /\ applied.kind = "live"
       /\ applied.gen = Len(calls)
       /\ StoredMatches(applied)
       /\ lastRequest.price_weight = effectiveBias
       /\ lastRequest.bias = effectiveBias

\* C21 witness: the result for the mount bias was stored, then the bias was
\* changed to 50; the system has settled with the result of the second call,
\* requested with price weight 0.5.
C21_Witness ==
  /\ ~demo
  /\ Quiescent
  /\ recStatus = "idle"
  /\ lastDelivery = [gen |-> 2, aborted |-> FALSE, failed |-> FALSE, late |-> FALSE]
  /\ applied.gen = 2
  /\ effectiveBias = 50
  /\ lastRequest.price_weight = 50
  /\ recommendations = LiveRecommendations(2)

\* C23: in every reachable state effectiveBias = snap(rawWeight), from the
\* state seeded by DEMO_WEIGHT through every slider move and focus toggle,
\* and the ref read by a manual run holds the same value.
C23_BiasIsSnapOfWeight ==
  /\ effectiveBias = snapWeight(weight)
  /\ effectiveBias = (IF weight < 50 THEN 50 ELSE 60)
  /\ weightRef = effectiveBias

\* C23 witness: after a slider move to 50 (effective bias 60) the focus was
\* toggled to "sentiment": raw weight 25, effective bias 50.
C23_Witness ==
  /\ focus = "sentiment"
  /\ weight = 25
  /\ effectiveBias = 50
  /\ lastRequest.bias = 60
  /\ weight \notin DemoWeights

\* C24 (claim as stated): after a slider move to raw value w the focus is
\* "price" when w >= 50 and "sentiment" when w < 50.
C24_FocusFollowsSlider ==
  [][\A v \in Weights :
       handleWeightChange(v)
         => focus' = (IF v >= 50 THEN "price" ELSE "sentiment")]_vars

\* C26: every change of the raw weight restarts the quiescence timer, also
\* when the effective bias stays the same: the old timer is cleared and
\* exactly one timer is pending, due one window after the change (at once in
\* demo mode); it runs once, one window after the last change; a step that
\* changes neither raw weight nor effective bias starts no timer.
C26_WeightChangeRestartsTimer ==
  /\ [][weight' # weight =>
          /\ timers' = {[due |-> now + (IF demo THEN 0 ELSE 600),
                         trigger |-> IF demo THEN "manual" ELSE "auto",
                         bias |-> effectiveBias']}
          /\ debounce' \in timers'
          /\ lastChangeAt' = now
          /\ autoSinceChange' = 0]_vars
  /\ [][(weight' = weight /\ effectiveBias' = effectiveBias)
          => timers' \subseteq timers]_vars
  /\ [][(~demo /\ TimerRan) => /\ now = lastChangeAt + 600
                               /\ autoSinceChange' = 1
                               /\ Dispatching]_vars

\* C26 witness: the slider was moved from 65 to 50 (effective bias 60 both
\* times) after the mount timer would have been half way; the one call made
\* left one window after that move.
C26_Witness ==
  /\ ~demo
  /\ weight = 50
  /\ effectiveBias = 60
  /\ lastChangeAt > 0
  /\ now = lastChangeAt + 600
  /\ autoSinceChange = 1
  /\ Len(calls) = 1
  /\ lastRequest.trigger = "auto"

\* C27: with demo mode off and no user event at all, exactly one automatic
\* call is dispatched, one debounce window (600 ms) after session start,
\* with price weight snap(DEMO_WEIGHT) / 100 and no wallet hint; until then
\* the status is Idle with an empty recommendation list, no cluster and the
\* default narrative.
C27_InitialAutoCall ==
  /\ [](/\ Len(calls) <= 1
        /\ now > 600 => Len(calls) = 1
        /\ calls = <<>> =>
             /\ recStatus = "idle"
             /\ recommendations = <<>>
             /\ clusterInsight = Null
             /\ narrativeCopy = DEFAULT_NARRATIVE
             /\ lastRequest = NoRequest
        /\ Len(calls) = 1 =>
             LET b == IF weight < 50 THEN 50 ELSE 60
             IN lastRequest = [trigger |-> "auto", bias |-> b,
                               price_weight |-> b, sentiment_weight |-> 100 - b,
                               wallet |-> Null])
  /\ [][Dispatching => (now = 600 /\ calls = <<>> /\ timers' = {})]_vars

\* C27 witness: DEMO_WEIGHT 30; the one call went out with price weight 0.5
\* and its result is stored; time has moved on and nothing else happened.
C27_Witness ==
  /\ weight = 30
  /\ Len(calls) = 1
  /\ lastRequest.price_weight = 50
  /\ lastRequest.wallet = Null
  /\ applied.kind = "live"
  /\ recStatus = "idle"
  /\ timers = {}
  /\ now > 600

\* t is s without its leading and trailing blanks
IsTrimOf(t, s) ==
  \E i \in 1..(Len(s) + 1), j \in 0..Len(s) :
    /\ t = SubSeq(s, i, j)
    /\ \A k \in 1..Len(s) : (k < i \/ k > j) => s[k] = " "
    /\ t # <<>> => (t[1] # " " /\ t[Len(t)] # " ")

\* C29: a request carries a wallet hint only when it comes from a manual run
\* made while the wallet field is non-empty after trimming, and the hint is
\* then the trimmed text of the field at the time of the click; a request of
\* the debounce timer, and a manual request with an empty or all-blank
\* field, carry wallet = null.
C29_WalletHint ==
  /\ [](walletRef = wallet)
  /\ [][Dispatching =>
          IF lastRequest'.trigger = "manual" /\ \E k \in 1..Len(wallet) : wallet[k] # " "
          THEN /\ lastRequest'.wallet # Null
               /\ lastRequest'.wallet[2] # <<>>
               /\ IsTrimOf(lastRequest'.wallet[2], wallet)
          ELSE lastRequest'.wallet = Null]_vars
  /\ [][(Dispatching /\ TimerRan) => lastRequest'.wallet = Null]_vars

\* C29 witness: the field holds " x " and the manual run sent "x".
C29_Witness ==
  /\ wallet = <<" ", "x", " ">>
  /\ lastRequest.trigger = "manual"
  /\ lastRequest.wallet = <<"value", <<"x">>>>
  /\ Len(calls) = 2

\* C30: unmounting aborts the outstanding call and cancels the pending
\* quiescence timer; after unmount no timer is pending or fires, no call is
\* dispatched, and no completion of an earlier call changes the status or
\* the stored result.
C30_UnmountStopsEverything ==
  /\ [][(mounted /\ ~mounted') =>
          /\ timers' = {}
          /\ \A id \in 1..Len(calls') : calls'[id].aborted
          /\ Len(calls') = Len(calls)
          /\ UNCHANGED resultVars]_vars
  /\ [](~mounted => /\ timers = {}
                    /\ \A id \in 1..Len(calls) : calls[id].aborted)
  /\ [][~mounted => /\ ~mounted'
                    /\ ~TimerRan
                    /\ ~Dispatching
                    /\ ~Arming
                    /\ UNCHANGED resultVars
                    /\ applied' = applied]_vars

\* C30 witness: the page was unmounted while a manual call was outstanding
\* and the timer of a later change was pending; the call has since completed
\* successfully and the timer's time has come, yet the timer never ran and
\* the status is still the Loading it was at unmount.
C30_Witness ==
  /\ ~mounted
  /\ ~demo
  /\ Len(calls) = 1
  /\ lastRequest.trigger = "manual"
  /\ lastDelivery = [gen |-> 1, aborted |-> TRUE, failed |-> FALSE, late |-> FALSE]
  /\ recStatus = "loading"
  /\ applied.kind = "none"
  /\ lastChangeAt > 0
  /\ autoSinceChange = 0
  /\ now >= debounce.due

\* C22: (refactored page) there is no automatic retry or polling: when a call
\* settles, with success or with failure, the status change it causes does
\* not arm the debounce timer again, and no call is dispatched by it.
C22_CompletionDoesNotRearmRefactored ==
  [][\A id \in 1..Len(calls) :
       Settling(id) => /\ timers' \subseteq timers
                       /\ debounce' = debounce
                       /\ ~Dispatching]_vars

\* C25: (refactored coordinator) while a call is in flight (status loading)
\* a timer callback (trigger auto) returns at once: no call, no abort, no
\* state change; a manual run in the same situation aborts the call in
\* flight and dispatches a new one, which becomes the current call.
C25_AutoDedupedManualSupersedes ==
  [][/\ (TimerRan /\ recStatus = "loading") =>
          UNCHANGED <<prefVars, resultVars, netVars, applied>>
     /\ (RunManualRefactored /\ recStatus = "loading") =>
          /\ Outstanding(inferenceController)
          /\ ~calls[inferenceController].aborted
          /\ Dispatching
          /\ calls'[inferenceController].aborted
          /\ inferenceController' = Len(calls')
          /\ calls'[inferenceController'] = NewCall
          /\ lastRequest'.trigger = "manual"
          /\ recStatus' = "loading"]_vars

\* a manual run at mount, its re-armed timer deduped one window later while
\* the call was still in flight, then a second manual run superseding it
C25_Witness ==
  /\ Len(calls) = 2
  /\ autoSinceChange = 1
  /\ timers = {}
  /\ maxDelivered = 0
  /\ calls[1].aborted
  /\ Outstanding(1)
  /\ inferenceController = 2
  /\ lastRequest.trigger = "manual"
  /\ recStatus = "loading"

\* C28: (refactored page) choosing a focus mode sets the effective bias to
\* the snap of the raw weight it stores (60 for price, 50 for sentiment), so
\* effectiveBias = snap(rawWeight) is kept.
C28_FocusToggleSetsBiasRefactored ==
  [][\A m \in FocusModes :
       handleFocusChangeRefactored(m) =>
         /\ effectiveBias' = (IF m = "price" THEN SNAP_HIGH ELSE SNAP_LOW)
         /\ effectiveBias' = snapWeight(weight')]_vars
====
